---- MODULE Spec2Model ----
(***************************************************************************)
(* A model of src/src/atlas.rs: the AtlasBuilder (pack_glyph,              *)
(* create_atlas, glyph_index_for, atlas_rect) over an immutable outline    *)
(* source and a black-box shelf packer.                                    *)
(*                                                                         *)
(* Sequences are 1-based here and 0-based in the source: slot i of the     *)
(* source is element i + 1 of image_descriptors / image_metadata.          *)
(*                                                                         *)
(* Point sizes are f32 in the source.  Here a point size is an integer     *)
(* number k of 1/(2 * 65536) points, so that point_size * 65536.0 is k / 2 *)
(* and the truncating cast to u32 has something to truncate.  Arithmetic   *)
(* is exact; f32 rounding is not modelled.                                 *)
(***************************************************************************)
EXTENDS Integers, Sequences, FiniteSets

VARIABLES
    outline_builder,    \* the &OutlineBuilder handed to pack_glyph and create_atlas
    rect_packer,        \* AtlasBuilder.rect_packer
    image_descriptors,  \* AtlasBuilder.image_descriptors : Vec<ImageDescriptor>
    image_metadata,     \* AtlasBuilder.image_metadata : Vec<ImageMetadata>
    last,               \* the last call made, what the packer answered and what it returned
    pack_log,           \* history: one entry per pack_glyph call that returned Ok
    ranges,             \* merge loop taken alone: the per-slot (first, last) ranges
    batches,            \* merge loop taken alone: its result
    gl,                 \* the GL context: its buffer objects and the UNIFORM_BUFFER binding
    atlases             \* the Atlas values the callers hold, not yet dropped

vars == << outline_builder, rect_packer, image_descriptors, image_metadata,
           last, pack_log, ranges, batches, gl, atlases >>

builder_vars == << outline_builder, rect_packer, image_descriptors,
                   image_metadata, last, pack_log >>

builder_vars_but_last == << outline_builder, rect_packer, image_descriptors,
                            image_metadata, pack_log >>

merge_vars == << ranges, batches >>

atlas_vars == << gl, atlases >>

----------------------------------------------------------------------------
(* Bounds of the model *)

\* pack_glyph is not called again once this many glyphs are packed
MaxPacked == 3

\* longest list of ranges handed to the merge loop taken alone
MaxRanges == 3

\* create_atlas is not called while the callers hold this many Atlas values
MaxAtlases == 2

(* Program constants *)

\* 16.16 fixed point: point_size * 65536.0
Fixed16 == 65536

\* mem::size_of::<ImageDescriptor>(): four u32 fields, repr(C)
ImageDescriptorSize == 16

----------------------------------------------------------------------------
(* Inputs *)

\* glyph identifiers (u16) the outline source may hold; AbsentGlyphId is never held
GlyphIds == {1, 2}
AbsentGlyphId == {0, 3}

\* offsets into the shared index buffer
IndexOffsets == 0 .. 2

\* point sizes: 12.0 and 1.5 + 2^-17, in units of 1/(2 * Fixed16) point
PointSizes == {24 * Fixed16, 3 * Fixed16 + 1}

\* origins the shelf packer may answer with
PackerOrigins == { [x |-> 0, y |-> 0], [x |-> 16, y |-> 8] }

\* offsets of the ranges handed to the merge loop taken alone
RangeOffsets == {0, 10, 25, 30, 40}

\* the buffer names glGenBuffers may hand out (0 is never one)
BufferNames == 1 .. MaxAtlases

\* the primitive kinds draw is called with
Primitives == {"TRIANGLES"}

----------------------------------------------------------------------------
(* The outline source (outline::OutlineBuilder): per glyph a start offset  *)
(* into the shared index buffer, the glyph identifier and the glyph's      *)
(* bounds in font units; the length of the index buffer.                   *)

\* the bounds, in font units, of the glyph at (0-based) outline index i
GlyphUnits(i) == [width |-> 3 + i, height |-> 5 - 4 * (i % 2)]

\* start offsets never decrease and never pass the end of the index buffer
StartsOrdered(starts, len) ==
    /\ \A i \in 1 .. Len(starts) - 1 : starts[i] <= starts[i + 1]
    /\ \A i \in 1 .. Len(starts) : starts[i] <= len

OutlineBuilders ==
    { [descriptors |-> [i \in 1 .. n |->
                           [start_index |-> starts[i],
                            glyph_id |-> ids[i],
                            units |-> GlyphUnits(i - 1)]],
       units_per_em |-> 2,
       indices_len |-> len] :
      << n, starts, ids, len >> \in
        { q \in UNION { {n} \X [1 .. n -> IndexOffsets] \X [1 .. n -> GlyphIds]
                            \X IndexOffsets : n \in 1 .. 2 } :
            StartsOrdered(q[2], q[4]) } }

\* smallest integer not below a / b, for b > 0
CeilDiv(a, b) == -((-a) \div b)

\* outline_builder.glyph_pixel_bounds(glyph_index, point_size).size: the bounds in
\* font units scaled by point_size / units_per_em, as the fractions num / den
glyph_pixel_bounds(ob, glyph_index, point_size) ==
    LET d == ob.descriptors[glyph_index + 1]
    IN  [width_num |-> d.units.width * point_size,
         height_num |-> d.units.height * point_size,
         den |-> 2 * Fixed16 * ob.units_per_em]

\* .size.ceil().cast().unwrap(); the bounds of the model are never negative
CeilSize(bounds) ==
    [width |-> CeilDiv(bounds.width_num, bounds.den),
     height |-> CeilDiv(bounds.height_num, bounds.den)]

\* outline_builder.glyph_id(glyph_index)
glyph_id_of(ob, glyph_index) == ob.descriptors[glyph_index + 1].glyph_id

\* (point_size * 65536.0) as u32
EncodePointSize(point_size) == point_size \div 2

----------------------------------------------------------------------------
(* The shelf packer (rect_packer::RectPacker), a black box: a request is   *)
(* refused, or answered with an origin at which the rectangle lies within  *)
(* the available width.                                                    *)

RectPackers == { [available_width |-> 32, shelf_height |-> 8, shelf_columns |-> 1] }

NoSpace == [ok |-> FALSE, origin |-> [x |-> 0, y |-> 0]]

\* the outcomes of self.rect_packer.pack(&pixel_size)
rect_packer_pack(rp, pixel_size) ==
    {NoSpace} \cup
    { [ok |-> TRUE, origin |-> o] :
        o \in { p \in PackerOrigins : p.x + pixel_size.width <= rp.available_width } }

----------------------------------------------------------------------------
(* AtlasBuilder::pack_glyph *)

\* ImageDescriptor::default()
DefaultImageDescriptor == [atlas_x |-> 0, atlas_y |-> 0, point_size |-> 0, glyph_index |-> 0]

RECURSIVE PushDefaults(_, _)
\* while self.image_descriptors.len() < n { push(ImageDescriptor::default()) }
PushDefaults(descs, n) ==
    IF Len(descs) < n THEN PushDefaults(Append(descs, DefaultImageDescriptor), n)
    ELSE descs

\* let glyph_index = self.image_descriptors.len() as u32
NextGlyphIndex_Last(descs) == IF Len(descs) = 0 THEN 0 ELSE Len(descs) - 1
NextGlyphIndex(descs) == Len(descs)

\* the extend-if-short loop and self.image_descriptors[glyph_index] = ImageDescriptor { .. }
StoreDescriptor_Previous(descs, glyph_index, origin, point_size) ==
    [PushDefaults(descs, glyph_index + 1)
       EXCEPT ![IF glyph_index = 0 THEN 1 ELSE glyph_index] =
        [atlas_x |-> origin.x,
         atlas_y |-> origin.y,
         point_size |-> EncodePointSize(point_size),
         glyph_index |-> glyph_index]]
StoreDescriptor(descs, glyph_index, origin, point_size) ==
    [PushDefaults(descs, glyph_index + 1) EXCEPT ![glyph_index + 1] =
        [atlas_x |-> origin.x,
         atlas_y |-> origin.y,
         point_size |-> EncodePointSize(point_size),
         glyph_index |-> glyph_index]]

\* self.image_metadata.push(ImageMetadata { .. })
PushMetadata_Skip(metas, pixel_size, glyph_index, glyph_id) == metas
PushMetadata(metas, pixel_size, glyph_index, glyph_id) ==
    Append(metas, [atlas_size |-> pixel_size,
                   glyph_index |-> glyph_index,
                   glyph_id |-> glyph_id])

NoRect == [origin |-> [x |-> 0, y |-> 0], size |-> [width |-> 0, height |-> 0]]
NoAtlas == [start_indices |-> << >>, counts |-> << >>, images |-> 0,
            shelf_height |-> 0, shelf_columns |-> 0]

Call(op, arg, ret, slot, rect, atlas) ==
    [op |-> op, arg |-> arg, ret |-> ret, slot |-> slot, rect |-> rect, atlas |-> atlas,
     packed |-> "none", uploads |-> << >>, submissions |-> << >>]

\* the builder after try!(self.rect_packer.pack(..)) answered `packed`
PackGlyphBody_KeepGoing(descs, metas, packed, point_size, pixel_size, glyph_id) ==
    LET glyph_index == NextGlyphIndex(descs)
    IN  [ret |-> IF packed.ok THEN "Ok" ELSE "Err",
         glyph_index |-> glyph_index,
         descs |-> StoreDescriptor(descs, glyph_index, packed.origin, point_size),
         metas |-> PushMetadata(metas, pixel_size, glyph_index, glyph_id)]
PackGlyphBody(descs, metas, packed, point_size, pixel_size, glyph_id) ==
    IF ~packed.ok
    THEN [ret |-> "Err", glyph_index |-> 0, descs |-> descs, metas |-> metas]
    ELSE LET glyph_index == NextGlyphIndex(descs)
         IN  [ret |-> "Ok",
              glyph_index |-> glyph_index,
              descs |-> StoreDescriptor(descs, glyph_index, packed.origin, point_size),
              metas |-> PushMetadata(metas, pixel_size, glyph_index, glyph_id)]

Running == last.ret # "panic"

pack_glyph(glyph_index, point_size) ==
    /\ Running
    /\ Len(image_descriptors) < MaxPacked
    /\ Len(image_metadata) < MaxPacked
    /\ LET pixel_size == CeilSize(glyph_pixel_bounds(outline_builder, glyph_index, point_size))
           glyph_id == glyph_id_of(outline_builder, glyph_index)
       IN  \E packed \in rect_packer_pack(rect_packer, pixel_size) :
             LET r == PackGlyphBody(image_descriptors, image_metadata, packed,
                                    point_size, pixel_size, glyph_id)
             IN  /\ image_descriptors' = r.descs
                 /\ image_metadata' = r.metas
                 /\ last' = [Call("pack_glyph", glyph_index, r.ret, r.glyph_index,
                                  NoRect, NoAtlas)
                               EXCEPT !.packed = IF packed.ok THEN "placed" ELSE "refused"]
                 /\ pack_log' = IF r.ret = "Ok"
                                THEN Append(pack_log,
                                            [outline_index |-> glyph_index,
                                             glyph_id |-> glyph_id,
                                             origin |-> packed.origin,
                                             pixel_size |-> pixel_size,
                                             point_size |-> point_size,
                                             slot |-> r.glyph_index])
                                ELSE pack_log
    /\ UNCHANGED << outline_builder, rect_packer, merge_vars, atlas_vars >>

----------------------------------------------------------------------------
(* AtlasBuilder::create_atlas *)

\* a.glyph_index.cmp(&b.glyph_index), as "a goes after b"
ByGlyphIndex_Descending(a, b) == a.glyph_index < b.glyph_index
ByGlyphIndex_ByGlyphId(a, b) == a.glyph_id > b.glyph_id
ByGlyphIndex(a, b) == a.glyph_index > b.glyph_index

\* e put into the sorted s, after the elements it does not go before
Insert(s, e) ==
    LET before == { j \in 1 .. Len(s) : ByGlyphIndex(s[j], e) }
        k == IF before = {} THEN Len(s) + 1
             ELSE CHOOSE j \in before : \A h \in before : j <= h
    IN  SubSeq(s, 1, k - 1) \o << e >> \o SubSeq(s, k, Len(s))

RECURSIVE sort_by(_)
\* self.image_metadata.sort_by(|a, b| a.glyph_index.cmp(&b.glyph_index)): a stable sort
sort_by_Reversing(s) == [i \in 1 .. Len(s) |-> s[Len(s) + 1 - i]]
sort_by(s) ==
    IF s = << >> THEN << >>
    ELSE Insert(sort_by(SubSeq(s, 1, Len(s) - 1)), s[Len(s)])

\* outline_builder.descriptors[glyph_index] is out of bounds for some entry
RangeLookupPanics_NextToo(metas, ob) ==
    \E i \in 1 .. Len(metas) : metas[i].glyph_index + 1 >= Len(ob.descriptors)
RangeLookupPanics(metas, ob) ==
    \E i \in 1 .. Len(metas) : metas[i].glyph_index >= Len(ob.descriptors)

\* (first_index, last_index) of one entry
IndexRange_ToBufferEnd(ob, glyph_index) ==
    [first |-> ob.descriptors[glyph_index + 1].start_index,
     last |-> ob.indices_len]
IndexRange(ob, glyph_index) ==
    [first |-> ob.descriptors[glyph_index + 1].start_index,
     last |-> IF glyph_index + 1 < Len(ob.descriptors)
              THEN ob.descriptors[glyph_index + 2].start_index
              ELSE ob.indices_len]

\* the ranges the loop reads, in the order of the list
SlotRanges(metas, ob) ==
    [i \in 1 .. Len(metas) |-> IndexRange(ob, metas[i].glyph_index)]

\* (current_last - current_first) as GLsizei.  The offsets of the model are far
\* below 2^31, where the cast to the 32-bit GLsizei keeps the value.
BatchCount(current_first, current_last) == current_last - current_first

\* one turn of the loop: the match on current_range
MergeStep_NeverExtends(acc, r) ==
    IF acc.current = << >>
    THEN [acc EXCEPT !.current = << r >>]
    ELSE LET cur == acc.current[1]
         IN  [current |-> << r >>,
              counts |-> Append(acc.counts, BatchCount(cur.first, cur.last)),
              start_indices |-> Append(acc.start_indices, cur.first)]
MergeStep(acc, r) ==
    IF acc.current = << >>
    THEN [acc EXCEPT !.current = << r >>]
    ELSE LET cur == acc.current[1]
         IN  IF r.first = cur.last
             THEN [acc EXCEPT !.current = << [first |-> cur.first, last |-> r.last] >>]
             ELSE [current |-> << r >>,
                   counts |-> Append(acc.counts, BatchCount(cur.first, cur.last)),
                   start_indices |-> Append(acc.start_indices, cur.first)]

RECURSIVE MergeLoop(_, _, _)
MergeLoop(acc, rs, i) ==
    IF i > Len(rs) THEN acc ELSE MergeLoop(MergeStep(acc, rs[i]), rs, i + 1)

\* the loop over the ranges and the flush of the last open range
MergeRanges(rs) ==
    LET acc == MergeLoop([current |-> << >>, counts |-> << >>, start_indices |-> << >>],
                         rs, 1)
    IN  IF acc.current = << >>
        THEN [start_indices |-> acc.start_indices, counts |-> acc.counts]
        ELSE LET cur == acc.current[1]
             IN  [start_indices |-> Append(acc.start_indices, cur.first),
                  counts |-> Append(acc.counts, BatchCount(cur.first, cur.last))]

\* the GL context before any call
NoBuffer == [live |-> FALSE, data |-> << >>]
NewContext == [buffers |-> [n \in BufferNames |-> NoBuffer], uniform_buffer |-> 0]

\* gl::GenBuffers(1, &mut images): the names it may return, those not in use
GenBuffers(g) == { n \in BufferNames : ~g.buffers[n].live }

\* gl::BindBuffer(gl::UNIFORM_BUFFER, images)
BindBuffer(g, images) ==
    [g EXCEPT !.uniform_buffer = images, !.buffers[images].live = TRUE]

\* let length = self.image_descriptors.len() * mem::size_of::<ImageDescriptor>()
UploadLength_OneWord(descs) == Len(descs) * 4
UploadLength(descs) == Len(descs) * ImageDescriptorSize

\* gl::BufferData(gl::UNIFORM_BUFFER, length, ptr, gl::DYNAMIC_DRAW): the bound
\* buffer's store becomes the first `length` bytes at ptr, as whole records
BufferData(g, length, descs) ==
    IF g.uniform_buffer = 0 THEN g
    ELSE [g EXCEPT !.buffers[g.uniform_buffer].data =
            SubSeq(descs, 1, length \div ImageDescriptorSize)]

\* the Atlas { .. } returned
NewAtlas(merged, images, rp) ==
    [start_indices |-> merged.start_indices,
     counts |-> merged.counts,
     images |-> images,
     shelf_height |-> rp.shelf_height,
     shelf_columns |-> rp.shelf_columns]

create_atlas ==
    /\ Running
    /\ LET sorted == sort_by(image_metadata)
       IN  /\ image_metadata' = sorted
           /\ IF RangeLookupPanics(sorted, outline_builder)
              THEN /\ last' = Call("create_atlas", 0, "panic", 0, NoRect, NoAtlas)
                   /\ UNCHANGED atlas_vars
              ELSE \E images \in GenBuffers(gl) :
                     LET merged == MergeRanges(SlotRanges(sorted, outline_builder))
                         length == UploadLength(image_descriptors)
                         atlas == NewAtlas(merged, images, rect_packer)
                     IN  /\ gl' = BufferData(BindBuffer(gl, images), length,
                                             image_descriptors)
                         /\ atlases' = atlases \cup {atlas}
                         /\ last' = [Call("create_atlas", 0, "Ok", 0, NoRect, atlas)
                                       EXCEPT !.uploads =
                                         << [buffer |-> images, length |-> length] >>]
    /\ UNCHANGED << outline_builder, rect_packer, image_descriptors, pack_log, merge_vars >>

----------------------------------------------------------------------------
(* AtlasBuilder::glyph_index_for *)

\* slice::binary_search_by returns at the first probe that compares Equal in
\* some releases of the standard library and probes down to one element in
\* others; both are modelled.  Results are 0-based.

RECURSIVE BinarySearchEarly(_, _, _, _)
BinarySearchEarly(metas, glyph_id, base, len) ==
    IF len = 0 THEN [found |-> FALSE, index |-> base]
    ELSE LET half == len \div 2
             probe == metas[base + half + 1].glyph_id
         IN  IF probe = glyph_id THEN [found |-> TRUE, index |-> base + half]
             ELSE IF probe < glyph_id
                  THEN BinarySearchEarly(metas, glyph_id, base + half + 1, len - half - 1)
                  ELSE BinarySearchEarly(metas, glyph_id, base, half)

RECURSIVE BinarySearchLate(_, _, _, _)
BinarySearchLate(metas, glyph_id, base, size) ==
    IF size = 0 THEN [found |-> FALSE, index |-> 0]
    ELSE IF size > 1
         THEN LET half == size \div 2
                  mid == base + half
              IN  BinarySearchLate(metas, glyph_id,
                                   IF metas[mid + 1].glyph_id > glyph_id THEN base ELSE mid,
                                   size - half)
         ELSE LET probe == metas[base + 1].glyph_id
              IN  IF probe = glyph_id THEN [found |-> TRUE, index |-> base]
                  ELSE [found |-> FALSE,
                        index |-> base + (IF probe < glyph_id THEN 1 ELSE 0)]

\* self.image_metadata.binary_search_by(|metadata| metadata.glyph_id.cmp(&glyph_id))
binary_search_by_FirstOnly(metas, glyph_id) ==
    { IF Len(metas) > 0 /\ metas[1].glyph_id = glyph_id
      THEN [found |-> TRUE, index |-> 0]
      ELSE [found |-> FALSE, index |-> 0] }
binary_search_by_NoCompare(metas, glyph_id) ==
    { IF Len(metas) > 0
      THEN [found |-> TRUE, index |-> Len(metas) \div 2]
      ELSE [found |-> FALSE, index |-> 0] }
binary_search_by(metas, glyph_id) ==
    { BinarySearchEarly(metas, glyph_id, 0, Len(metas)),
      BinarySearchLate(metas, glyph_id, 0, Len(metas)) }

\* the Option<u32> values glyph_index_for(glyph_id) can return
GlyphIndexFor(metas, glyph_id) ==
    { IF r.found
      THEN [some |-> TRUE, glyph_index |-> metas[r.index + 1].glyph_index]
      ELSE [some |-> FALSE, glyph_index |-> 0] :
      r \in binary_search_by(metas, glyph_id) }

glyph_index_for(glyph_id) ==
    /\ Running
    /\ \E r \in GlyphIndexFor(image_metadata, glyph_id) :
         last' = Call("glyph_index_for", glyph_id,
                      IF r.some THEN "Some" ELSE "None", r.glyph_index, NoRect, NoAtlas)
    /\ UNCHANGED << outline_builder, rect_packer, image_descriptors, image_metadata,
                    pack_log, merge_vars, atlas_vars >>

----------------------------------------------------------------------------
(* AtlasBuilder::atlas_rect *)

\* Rect::new(Point2D::new(descriptor.atlas_x, descriptor.atlas_y), metadata.atlas_size)
AtlasRect_Transposed(descs, metas, glyph_index) ==
    [origin |-> [x |-> descs[glyph_index + 1].atlas_y, y |-> descs[glyph_index + 1].atlas_x],
     size |-> metas[glyph_index + 1].atlas_size]
AtlasRect(descs, metas, glyph_index) ==
    [origin |-> [x |-> descs[glyph_index + 1].atlas_x, y |-> descs[glyph_index + 1].atlas_y],
     size |-> metas[glyph_index + 1].atlas_size]

atlas_rect_Taking(glyph_index) ==
    /\ Running
    /\ glyph_index < Len(image_descriptors)
    /\ glyph_index < Len(image_metadata)
    /\ last' = Call("atlas_rect", glyph_index, "Rect", 0,
                    AtlasRect(image_descriptors, image_metadata, glyph_index), NoAtlas)
    /\ image_descriptors' = [image_descriptors EXCEPT ![glyph_index + 1] =
                                DefaultImageDescriptor]
    /\ UNCHANGED << outline_builder, rect_packer, image_metadata,
                    pack_log, merge_vars, atlas_vars >>
atlas_rect(glyph_index) ==
    /\ Running
    /\ IF glyph_index < Len(image_descriptors) /\ glyph_index < Len(image_metadata)
       THEN last' = Call("atlas_rect", glyph_index, "Rect", 0,
                         AtlasRect(image_descriptors, image_metadata, glyph_index), NoAtlas)
       ELSE last' = Call("atlas_rect", glyph_index, "panic", 0, NoRect, NoAtlas)
    /\ UNCHANGED << outline_builder, rect_packer, image_descriptors, image_metadata,
                    pack_log, merge_vars, atlas_vars >>

----------------------------------------------------------------------------
(* Atlas: Drop and draw *)

\* gl::DeleteBuffers(1, &mut self.images): a name not in use is ignored; a
\* deleted buffer that is bound is unbound
DeleteBuffers_Keep(g, images) == g
DeleteBuffers(g, images) ==
    IF images \notin BufferNames \/ ~g.buffers[images].live THEN g
    ELSE [g EXCEPT !.buffers[images] = NoBuffer,
                   !.uniform_buffer = IF @ = images THEN 0 ELSE @]

\* impl Drop for Atlas
drop_atlas(atlas) ==
    /\ Running
    /\ atlas \in atlases
    /\ gl' = DeleteBuffers(gl, atlas.images)
    /\ atlases' = atlases \ {atlas}
    /\ last' = Call("drop", atlas.images,
                    IF atlas.images \in BufferNames /\ gl.buffers[atlas.images].live
                    THEN "released" ELSE "stale",
                    0, NoRect, atlas)
    /\ UNCHANGED << builder_vars_but_last, merge_vars >>

\* gl::MultiDrawElements(primitive, counts, UNSIGNED_INT, start_indices, counts.len())
DrawSubmissions_PerRange(atlas, primitive) ==
    [k \in 1 .. Len(atlas.counts) |->
       [primitive |-> primitive,
        counts |-> << atlas.counts[k] >>,
        indices |-> << atlas.start_indices[k] >>,
        drawcount |-> 1]]
DrawSubmissions(atlas, primitive) ==
    << [primitive |-> primitive,
        counts |-> atlas.counts,
        indices |-> atlas.start_indices,
        drawcount |-> Len(atlas.counts)] >>

\* what a draw call does: with the lists of unequal length the debug
\* assertion panics in a debug build and is absent from a release build
DrawOutcomes(atlas, primitive) ==
    { [ret |-> "drawn", submissions |-> DrawSubmissions(atlas, primitive)] } \cup
    ( IF Len(atlas.counts) = Len(atlas.start_indices) THEN {}
      ELSE { [ret |-> "panic", submissions |-> << >>] } )

\* Atlas::draw
draw(atlas, primitive) ==
    /\ Running
    /\ atlas \in atlases
    /\ \E out \in DrawOutcomes(atlas, primitive) :
         last' = [Call("draw", atlas.images, out.ret, 0, NoRect, atlas)
                    EXCEPT !.submissions = out.submissions]
    /\ UNCHANGED << builder_vars_but_last, merge_vars, atlas_vars >>

----------------------------------------------------------------------------
(* The builder and its callers *)

NoBatches == [done |-> FALSE, start_indices |-> << >>, counts |-> << >>]

\* AtlasBuilder::new
Init ==
    /\ outline_builder \in OutlineBuilders
    /\ rect_packer \in RectPackers
    /\ image_descriptors = << >>
    /\ image_metadata = << >>
    /\ last = Call("new", 0, "Ok", 0, NoRect, NoAtlas)
    /\ pack_log = << >>
    /\ ranges = << >>
    /\ batches = NoBatches
    /\ gl = NewContext
    /\ atlases = {}

\* The callers: they pack while they hold no Atlas, finalize while they hold
\* fewer than MaxAtlases, and query, draw and drop at any time.
Next ==
    \/ /\ atlases = {}
       /\ \E glyph_index \in 0 .. Len(outline_builder.descriptors) - 1 :
            \E point_size \in PointSizes : pack_glyph(glyph_index, point_size)
    \/ /\ Cardinality(atlases) < MaxAtlases
       /\ create_atlas
    \/ \E glyph_id \in GlyphIds \cup AbsentGlyphId : glyph_index_for(glyph_id)
    \/ \E glyph_index \in 0 .. Len(image_descriptors) : atlas_rect(glyph_index)
    \/ \E atlas \in atlases : \E primitive \in Primitives : draw(atlas, primitive)
    \/ \E atlas \in atlases : drop_atlas(atlas)

Spec == Init /\ [][Next]_vars

----------------------------------------------------------------------------
(* The merge loop of create_atlas taken alone, over given ranges *)

RangeLists ==
    UNION { [1 .. n -> { r \in [first : RangeOffsets, last : RangeOffsets] :
                           r.first <= r.last }] : n \in 0 .. MaxRanges }

MergeInit ==
    /\ outline_builder = CHOOSE ob \in OutlineBuilders : Len(ob.descriptors) = 1
    /\ rect_packer \in RectPackers
    /\ image_descriptors = << >>
    /\ image_metadata = << >>
    /\ last = Call("new", 0, "Ok", 0, NoRect, NoAtlas)
    /\ pack_log = << >>
    /\ ranges \in RangeLists
    /\ batches = NoBatches
    /\ gl = NewContext
    /\ atlases = {}

merge_ranges ==
    /\ ~batches.done
    /\ LET merged == MergeRanges(ranges)
       IN  batches' = [done |-> TRUE,
                       start_indices |-> merged.start_indices,
                       counts |-> merged.counts]
    /\ UNCHANGED << builder_vars, ranges, atlas_vars >>

MergeNext == merge_ranges

SpecMerge == MergeInit /\ [][MergeNext]_vars

----------------------------------------------------------------------------
(* Properties of pack_glyph *)

\* C1: the number of descriptors is the number of pack_glyph calls that
\* returned Ok, and the k-th such call (from 0) was given slot k; a call that
\* failed took no slot.
C1_SlotsCountOkCalls ==
    /\ Len(image_descriptors) = Len(pack_log)
    /\ \A k \in 1 .. Len(pack_log) : pack_log[k].slot = k - 1

C1_Witness ==
    /\ Len(pack_log) = 2
    /\ last.op = "pack_glyph"
    /\ last.ret = "Err"

\* C2: a pack_glyph call whose request the shelf packer refused returns Err
\* and leaves image_descriptors and image_metadata as they were.
C2_RefusedPackChangesNothing ==
    [][(last'.op = "pack_glyph" /\ last'.packed = "refused") =>
         /\ last'.ret = "Err"
         /\ image_descriptors' = image_descriptors
         /\ image_metadata' = image_metadata]_vars

C2_Witness ==
    /\ last.op = "pack_glyph"
    /\ last.packed = "refused"
    /\ last.ret = "Err"
    /\ Len(image_descriptors) >= 1

\* C3: the two lists have the same length, and entry i of each carries slot
\* index i.
C3_ListsInStep ==
    /\ Len(image_descriptors) = Len(image_metadata)
    /\ \A i \in 1 .. Len(image_descriptors) : image_descriptors[i].glyph_index = i - 1
    /\ \A i \in 1 .. Len(image_metadata) : image_metadata[i].glyph_index = i - 1

C3_Witness ==
    /\ Len(image_descriptors) >= 2
    /\ Len(image_metadata) >= 2
    /\ last.op = "create_atlas"

\* n is the least integer not below num / den
IsCeiling(n, num, den) == n * den >= num /\ (n - 1) * den < num

\* the rectangle the i-th (from 0) successful pack_glyph call was given
PackedRect(i) ==
    [origin |-> pack_log[i + 1].origin, size |-> pack_log[i + 1].pixel_size]

\* C4: for every packed slot i, atlas_rect(i) is the origin the packer gave
\* the i-th successful call with the ceiling of the pixel bounds reported to
\* that call; in every state, and for the value an atlas_rect call returned.
C4_AtlasRectIsPackedRect ==
    /\ \A i \in 0 .. Len(pack_log) - 1 :
         /\ i < Len(image_descriptors)
         /\ i < Len(image_metadata)
         /\ AtlasRect(image_descriptors, image_metadata, i) = PackedRect(i)
         /\ LET e == pack_log[i + 1]
                u == outline_builder.descriptors[e.outline_index + 1].units
                den == 2 * Fixed16 * outline_builder.units_per_em
                r == AtlasRect(image_descriptors, image_metadata, i)
            IN  /\ IsCeiling(r.size.width, u.width * e.point_size, den)
                /\ IsCeiling(r.size.height, u.height * e.point_size, den)
    /\ (last.op = "atlas_rect" /\ last.ret = "Rect") =>
         /\ last.arg < Len(pack_log)
         /\ last.rect = PackedRect(last.arg)

C4_Witness ==
    /\ last.op = "atlas_rect"
    /\ last.ret = "Rect"
    /\ last.arg = 0
    /\ Len(pack_log) >= 2
    /\ last.rect.origin = [x |-> 16, y |-> 8]
    /\ last.rect.size = [width |-> 3, height |-> 4]

----------------------------------------------------------------------------
(* Properties of the merge loop *)

\* the slots at which a run starts: the first, and each whose range does not
\* start where the one before it ends
RunStarts(rs) == { i \in 1 .. Len(rs) : i = 1 \/ rs[i].first # rs[i - 1].last }

\* the last slot of the run that starts at i
RunEnd(rs, i) ==
    CHOOSE j \in i .. Len(rs) :
      /\ \A k \in i + 1 .. j : k \notin RunStarts(rs)
      /\ j = Len(rs) \/ j + 1 \in RunStarts(rs)

\* one (start, count) per maximal run, in slot order
ReferenceBatches(rs) ==
    LET starts == RunStarts(rs)
        nth(k) == CHOOSE i \in starts : Cardinality({ h \in starts : h < i }) = k - 1
    IN  [k \in 1 .. Cardinality(starts) |->
           << rs[nth(k)].first, rs[RunEnd(rs, nth(k))].last - rs[nth(k)].first >>]

\* the (start, count) pairs of a result of the loop
BatchPairs(b) ==
    [k \in 1 .. Len(b.start_indices) |-> << b.start_indices[k], b.counts[k] >>]

ExampleRanges ==
    << [first |-> 0, last |-> 10], [first |-> 10, last |-> 25], [first |-> 30, last |-> 40] >>

\* C5: over given ranges with first <= last, the loop produces one batch per
\* maximal run of ranges that each start where the one before ends, as
\* (first of the run, last of the run - first of the run), in slot order;
\* (0,10), (10,25), (30,40) give (0,25), (30,10).
C5_MergeIsGreedyReference ==
    batches.done =>
      /\ Len(batches.start_indices) = Len(batches.counts)
      /\ BatchPairs(batches) = ReferenceBatches(ranges)
      /\ ranges = ExampleRanges => BatchPairs(batches) = << << 0, 25 >>, << 30, 10 >> >>

C5_Witness ==
    /\ batches.done
    /\ ranges = ExampleRanges
    /\ BatchPairs(batches) = << << 0, 25 >>, << 30, 10 >> >>

----------------------------------------------------------------------------
(* Properties of create_atlas *)

\* the index-buffer offsets a list of batches covers
Covered(atlas) ==
    UNION { { o \in IndexOffsets :
                /\ atlas.start_indices[k] <= o
                /\ o < atlas.start_indices[k] + atlas.counts[k] } :
            k \in 1 .. Len(atlas.start_indices) }

\* the index-buffer offsets of the glyph at outline index i
GlyphGeometry(ob, i) ==
    { o \in IndexOffsets : IndexRange(ob, i).first <= o /\ o < IndexRange(ob, i).last }

\* C6: the batches create_atlas returns cover exactly the geometry of the
\* glyphs whose outline index was passed to a successful pack_glyph call.
C6_BatchesCoverPackedGlyphs ==
    (last.op = "create_atlas" /\ last.ret = "Ok") =>
      Covered(last.atlas) =
        UNION { GlyphGeometry(outline_builder, pack_log[k].outline_index) :
                k \in 1 .. Len(pack_log) }

\* the list is in nondecreasing glyph_id order
SortedByGlyphId(metas) ==
    \A i \in 1 .. Len(metas) - 1 : metas[i].glyph_id <= metas[i + 1].glyph_id

\* some packed glyph has this identifier
IsPacked(glyph_id) == \E k \in 1 .. Len(pack_log) : pack_log[k].glyph_id = glyph_id

\* C7: with image_metadata sorted by glyph_id, glyph_index_for(g) is Some(s)
\* with image_metadata[s].glyph_id = g when a packed glyph has identifier g,
\* and None when none has.
C7_LookupOnSortedList ==
    SortedByGlyphId(image_metadata) =>
      /\ \A g \in GlyphIds \cup AbsentGlyphId :
           \A r \in GlyphIndexFor(image_metadata, g) :
             IF IsPacked(g)
             THEN /\ r.some
                  /\ r.glyph_index < Len(image_metadata)
                  /\ image_metadata[r.glyph_index + 1].glyph_id = g
             ELSE ~r.some
      /\ last.op = "glyph_index_for" =>
           IF IsPacked(last.arg)
           THEN /\ last.ret = "Some"
                /\ last.slot < Len(image_metadata)
                /\ image_metadata[last.slot + 1].glyph_id = last.arg
           ELSE last.ret = "None"

C7_Witness ==
    /\ Len(image_metadata) = 3
    /\ SortedByGlyphId(image_metadata)
    /\ image_metadata[1].glyph_id < image_metadata[3].glyph_id
    /\ last.op = "glyph_index_for"
    /\ last.ret = "Some"
    /\ last.slot = 2

\* C8: glyph_index_for(g) returns None only if no packed glyph has
\* identifier g, whatever the order the glyphs were packed in.
C8_NoneOnlyIfAbsent ==
    (last.op = "glyph_index_for" /\ last.ret = "None") => ~IsPacked(last.arg)

\* the list is in strictly ascending slot-index order
StrictlyAscending(metas) ==
    \A i \in 1 .. Len(metas) - 1 : metas[i].glyph_index < metas[i + 1].glyph_index

\* C9: image_metadata is in strictly ascending slot-index order in every
\* state, and create_atlas leaves image_descriptors and image_metadata as
\* they were, and with them the results of glyph_index_for and atlas_rect.
C9_CreateAtlasKeepsLists ==
    [][/\ StrictlyAscending(image_metadata)
       /\ StrictlyAscending(image_metadata')
       /\ last'.op = "create_atlas" =>
            /\ image_descriptors' = image_descriptors
            /\ image_metadata' = image_metadata
            /\ \A g \in GlyphIds \cup AbsentGlyphId :
                 GlyphIndexFor(image_metadata', g) = GlyphIndexFor(image_metadata, g)
            /\ \A i \in 0 .. Len(image_metadata) - 1 :
                 AtlasRect(image_descriptors', image_metadata', i)
                   = AtlasRect(image_descriptors, image_metadata, i)]_vars

C9_Witness ==
    /\ last.op = "create_atlas"
    /\ last.ret = "Ok"
    /\ Len(image_metadata) = 2
    /\ image_metadata[1].glyph_id > image_metadata[2].glyph_id

\* C10: a pack_glyph call, successful or not, leaves every slot assigned
\* before it as it was, in both lists.
C10_PackKeepsAssignedSlots ==
    [][last'.op = "pack_glyph" =>
         /\ Len(image_descriptors') >= Len(image_descriptors)
         /\ Len(image_metadata') >= Len(image_metadata)
         /\ \A i \in 1 .. Len(image_descriptors) :
              image_descriptors'[i] = image_descriptors[i]
         /\ \A i \in 1 .. Len(image_metadata) :
              image_metadata'[i] = image_metadata[i]]_vars

C10_Witness ==
    /\ last.op = "pack_glyph"
    /\ last.ret = "Ok"
    /\ last.slot = 2
    /\ Len(image_descriptors) = 3

----------------------------------------------------------------------------
(* Properties of create_atlas, Atlas and glyph_index_for, continued *)

\* C11: on a builder whose every packed slot has a descriptor in the outline
\* source, empty or not and whatever pack_glyph calls failed before,
\* create_atlas returns Ok with an Atlas; it never returns Err.
C11_CreateAtlasSucceeds ==
    last.op = "create_atlas" =>
      /\ last.ret # "Err"
      /\ Len(image_metadata) <= Len(outline_builder.descriptors) =>
           /\ last.ret = "Ok"
           /\ last.atlas \in atlases
           /\ Len(last.uploads) = 1

C11_Witness ==
    /\ last.op = "create_atlas"
    /\ last.ret = "Ok"
    /\ Len(image_metadata) = Len(outline_builder.descriptors)
    /\ Len(image_metadata) = 2

\* the names of the buffers in use
LiveBuffers(g) == { n \in BufferNames : g.buffers[n].live }

\* every Atlas held owns a buffer in use, no two own the same, and every
\* buffer in use is owned
BuffersOwned(g, held) ==
    /\ \A a \in held : a.images \in LiveBuffers(g)
    /\ \A a, b \in held : a.images = b.images => a = b
    /\ \A n \in LiveBuffers(g) : \E a \in held : a.images = n

\* C12: a buffer is in use exactly while the Atlas that owns it is held; only
\* dropping an Atlas releases a buffer, it releases that Atlas's buffer, which
\* was in use, and nothing else; each successful create_atlas takes one name
\* that was not in use for one new Atlas.
C12_BuffersReleasedByDropOnly ==
    [][/\ BuffersOwned(gl, atlases)
       /\ BuffersOwned(gl', atlases')
       /\ last'.op = "drop" =>
            /\ last'.ret = "released"
            /\ last'.arg \in LiveBuffers(gl)
            /\ LiveBuffers(gl') = LiveBuffers(gl) \ {last'.arg}
            /\ atlases' = atlases \ {last'.atlas}
       /\ (last'.op = "create_atlas" /\ last'.ret = "Ok") =>
            /\ last'.atlas.images \notin LiveBuffers(gl)
            /\ LiveBuffers(gl') = LiveBuffers(gl) \cup {last'.atlas.images}
            /\ atlases' = atlases \cup {last'.atlas}
       /\ (last'.op # "drop" /\ ~(last'.op = "create_atlas" /\ last'.ret = "Ok")) =>
            /\ LiveBuffers(gl') = LiveBuffers(gl)
            /\ atlases' = atlases]_vars

C12_Witness ==
    /\ last.op = "drop"
    /\ last.ret = "released"
    /\ Cardinality(atlases) = 1
    /\ LiveBuffers(gl) = { a.images : a \in atlases }
    /\ last.arg \notin LiveBuffers(gl)

\* C13: atlas_rect changes nothing of the builder and returns the rectangle
\* the two lists hold, which no call but pack_glyph changes, so that two
\* atlas_rect calls for one slot with no pack_glyph between them return the
\* same; draw changes no Atlas.
C13_QueriesReadOnly ==
    [][/\ last'.op = "atlas_rect" =>
            /\ image_descriptors' = image_descriptors
            /\ image_metadata' = image_metadata
            /\ last'.ret = "Rect" =>
                 last'.rect = AtlasRect(image_descriptors, image_metadata, last'.arg)
       /\ (last.op = "atlas_rect" /\ last'.op = "atlas_rect" /\ last'.arg = last.arg) =>
            /\ last'.ret = last.ret
            /\ last'.rect = last.rect
       /\ last'.op # "pack_glyph" =>
            /\ Len(image_descriptors') = Len(image_descriptors)
            /\ Len(image_metadata') = Len(image_metadata)
            /\ \A i \in 0 .. Len(image_descriptors) - 1 :
                 i < Len(image_metadata) =>
                   AtlasRect(image_descriptors', image_metadata', i)
                     = AtlasRect(image_descriptors, image_metadata, i)
       /\ last'.op = "draw" =>
            /\ atlases' = atlases
            /\ last'.atlas \in atlases']_vars

C13_Witness ==
    /\ last.op = "atlas_rect"
    /\ last.ret = "Rect"
    /\ last.arg = 1
    /\ atlases # {}

\* C14: in every Atlas created, counts and start_indices have one length; no
\* draw call fails its assertion, and each makes exactly one submission, whose
\* range count is that length, also with no glyph packed.
C14_OneSubmissionPerDraw ==
    /\ \A a \in atlases : Len(a.counts) = Len(a.start_indices)
    /\ (last.op = "create_atlas" /\ last.ret = "Ok") =>
         Len(last.atlas.counts) = Len(last.atlas.start_indices)
    /\ last.op = "draw" =>
         /\ last.ret = "drawn"
         /\ Len(last.submissions) = 1
         /\ last.submissions[1].drawcount = Len(last.atlas.counts)
         /\ last.submissions[1].drawcount = Len(last.atlas.start_indices)
         /\ last.submissions[1].counts = last.atlas.counts
         /\ last.submissions[1].indices = last.atlas.start_indices

C14_Witness ==
    /\ last.op = "draw"
    /\ Len(last.submissions) = 1
    /\ last.submissions[1].drawcount = 0
    /\ Len(image_descriptors) = 0

\* e is point_size * 65536 cut to an integer
IsEncoded(e, point_size) == 2 * e <= point_size /\ point_size < 2 * e + 2

\* the record of the i-th (from 1) successful pack_glyph call
PackedRecord(i) ==
    [atlas_x |-> pack_log[i].origin.x,
     atlas_y |-> pack_log[i].origin.y,
     glyph_index |-> i - 1]

\* C15: create_atlas makes one upload, into the buffer of the Atlas it
\* returns; the buffer then holds as many records as glyphs were packed, the
\* i-th being image_descriptors[i]: the origin, the encoded point size and the
\* slot index of the i-th packed glyph.
C15_UploadIsDescriptorArray ==
    (last.op = "create_atlas" /\ last.ret = "Ok") =>
      /\ Len(last.uploads) = 1
      /\ last.uploads[1].buffer = last.atlas.images
      /\ last.atlas.images \in LiveBuffers(gl)
      /\ LET data == gl.buffers[last.atlas.images].data
         IN  /\ Len(data) = Len(pack_log)
             /\ data = image_descriptors
             /\ \A i \in 1 .. Len(data) :
                  /\ data[i].atlas_x = PackedRecord(i).atlas_x
                  /\ data[i].atlas_y = PackedRecord(i).atlas_y
                  /\ data[i].glyph_index = PackedRecord(i).glyph_index
                  /\ IsEncoded(data[i].point_size, pack_log[i].point_size)

C15_Witness ==
    /\ last.op = "create_atlas"
    /\ last.ret = "Ok"
    /\ Len(pack_log) = 2
    /\ Len(gl.buffers[last.atlas.images].data) = 2
    /\ pack_log[1].point_size % 2 = 1
    /\ pack_log[2].origin.x = 16

\* C16: the Atlas values of create_atlas calls with no pack_glyph call between
\* them (the callers hold no Atlas when they pack) have the same counts and
\* the same start_indices.
C16_CreateAtlasRepeatable ==
    /\ \A a, b \in atlases :
         a.counts = b.counts /\ a.start_indices = b.start_indices
    /\ (last.op = "create_atlas" /\ last.ret = "Ok") =>
         \A a \in atlases :
           a.counts = last.atlas.counts /\ a.start_indices = last.atlas.start_indices

C16_Witness ==
    /\ Cardinality(atlases) = 2
    /\ last.op = "create_atlas"
    /\ last.ret = "Ok"
    /\ Len(image_metadata) = 2
    /\ last.atlas.counts = << 2 >>

\* where the range of the slot i (from 0) ends
RangeEnd(ob, i) ==
    IF i + 1 < Len(ob.descriptors) THEN ob.descriptors[i + 2].start_index
    ELSE ob.indices_len

\* C17: the range of every slot but the last ends where the next one starts,
\* and create_atlas returns no batch with no glyph packed and otherwise one
\* batch, from the start offset of outline descriptor 0 to the end of the
\* range of the last slot.
C17_AlwaysOneBatch ==
    (last.op = "create_atlas" /\ last.ret = "Ok") =>
      LET n == Len(image_metadata)
          rs == SlotRanges(image_metadata, outline_builder)
      IN  /\ \A i \in 1 .. n - 1 : rs[i + 1].first = rs[i].last
          /\ Len(last.atlas.counts) <= 1
          /\ IF n = 0
             THEN last.atlas.start_indices = << >> /\ last.atlas.counts = << >>
             ELSE /\ last.atlas.start_indices
                       = << outline_builder.descriptors[1].start_index >>
                  /\ last.atlas.counts
                       = << RangeEnd(outline_builder, n - 1)
                              - outline_builder.descriptors[1].start_index >>

C17_Witness ==
    /\ last.op = "create_atlas"
    /\ last.ret = "Ok"
    /\ Len(image_metadata) = 2
    /\ outline_builder.descriptors[2].start_index = 1
    /\ outline_builder.indices_len = 2
    /\ last.atlas.start_indices = << 0 >>
    /\ last.atlas.counts = << 2 >>

\* C18: whenever glyph_index_for(g) is Some(s), s is a packed slot and the
\* glyph packed into slot s has identifier g, in whatever order the glyphs
\* were packed.
C18_LookupIsSound ==
    /\ \A g \in GlyphIds \cup AbsentGlyphId :
         \A r \in GlyphIndexFor(image_metadata, g) :
           r.some =>
             /\ r.glyph_index < Len(pack_log)
             /\ pack_log[r.glyph_index + 1].glyph_id = g
    /\ (last.op = "glyph_index_for" /\ last.ret = "Some") =>
         /\ last.slot < Len(pack_log)
         /\ pack_log[last.slot + 1].glyph_id = last.arg

C18_Witness ==
    /\ last.op = "glyph_index_for"
    /\ last.ret = "Some"
    /\ last.slot = 1
    /\ Len(image_metadata) = 2
    /\ ~SortedByGlyphId(image_metadata)

====
